---------------------------- MODULE Spec2Model ----------------------------
(***************************************************************************)
(* A model of the OIDC authentication core of oidc-auth-lib:               *)
(*                                                                         *)
(*   - WellKnownConfigurationCache (auth/config/                           *)
(*     well_known_configuration_cache.py): the per-URI single-flight       *)
(*     cache of discovery documents;                                       *)
(*   - the event-based WellKnownConfigurationManager                       *)
(*     (auth/well_known_configuration/well_known_configuration_manager.py):*)
(*     ensure_initialized_async and refresh_async;                         *)
(*   - the plain WellKnownConfigurationManager                             *)
(*     (auth/well_known_config_manager.py) and TokenReader                 *)
(*     (auth/token_reader.py), which verifies tokens against it;           *)
(*   - SimpleContainer (container/simple_container.py) and                 *)
(*     ContainerRegistry (container/container_registry.py), which run on   *)
(*     threads and are modelled one shared-memory access per action.       *)
(*                                                                         *)
(* The code runs on asyncio: a coroutine runs without interruption up to   *)
(* its next suspension point (an HTTP request, a wait on an Event, a wait  *)
(* on a Lock that is held).  One action of the model is one such run.      *)
(* asyncio.Lock objects that are never held across a suspension point      *)
(* (the cache's _locks_lock, the manager's _lock) are never contended and  *)
(* are therefore part of the atomic step that takes them.                  *)
(***************************************************************************)
EXTENDS Integers, Sequences, FiniteSets, TLC

\* ------------------------------------------------------------------ bounds
NumProcs == 3
MaxCalls == 1
MaxClears == 1
MaxFaults == 2
MaxRefreshes == 2
MaxHeaderLen == 5
MaxResolves == 2

Procs == 1..NumProcs

None == "None"

\* The well-known URIs that are requested.
URIs == {"u1", "u2"}

\* The SimpleContainer objects and the ids of request scopes.
Containers == {1, 2}
RequestIds == {"r1", "r2"}

VARIABLES
    auth_configs,     \* the AuthConfig list the AuthConfigReader returns
    published,        \* published[i]: the keys provider i's JWKS endpoint serves
    presented,        \* what callers present to TokenReader: tokens, or headers
    cache,            \* WellKnownConfigurationCache._cache: uri -> document (0: absent)
    locks,            \* WellKnownConfigurationCache._locks: the URIs that have a lock
    lockOwner,        \* the holder of each per-URI lock (0: free)
    httpGets,         \* outbound HTTP GETs of each discovery URI
    jwksGets,         \* outbound HTTP GETs of each provider's JWKS URI
    clears,           \* number of clear() calls so far
    faults,           \* number of failed fetches and cancellations so far
    pc,               \* where each coroutine is suspended
    op,               \* the operation each coroutine is running
    uri,              \* the URI a coroutine is getting
    idx,              \* the provider a loading coroutine is at
    fetchNo,          \* the serial number of the GET a coroutine has in flight
    result,           \* what the coroutine's last operation returned or raised
    calls,            \* operations started by each coroutine
    loaded,           \* manager._loaded
    initializing,     \* manager._initializing
    init_event,       \* manager._init_event is set
    woken,            \* waiters of _init_event whose wait() has been resolved by set()
    refresh_lock,     \* holder of manager._refresh_lock (0: free)
    refreshes,        \* number of refresh_async calls so far
    client_key_sets,  \* plain manager: WellKnownConfigurationManager.client_key_sets
    lastVerify,       \* the last verify or decode call that ended: token and outcome
    factories,        \* the containers whose _factories holds the service type
    singleton_types,  \* the containers whose _singleton_types holds the service type
    request_scoped_types, \* the containers whose _request_scoped_types holds it
    singletons,       \* SimpleContainer._singletons[service type] (0: no entry)
    singleton_lock,   \* the thread that holds SimpleContainer._singleton_lock (0: free)
    instances,        \* number of factory invocations so far; instance n is the n-th made
    singleton_calls,  \* number of factory invocations on the singleton path
    singleton_clears, \* number of clear_singletons() calls so far
    using,            \* the container a thread resolves through, or overrides with
    made,             \* the instance a thread's factory call returned, not yet stored
    current_request_id,    \* _current_request_id in each thread's context (None: not set)
    request_scope_storage, \* _request_scope_storage in each thread's context
    default_container,     \* ContainerRegistry._default_container (0: None)
    current_container,     \* ContainerRegistry._current_container (-1: no such attribute)
    request_container,     \* _request_container in each thread's context (0: None)
    old_container,         \* the old_container of a thread inside override()
    gets_at_clear          \* history: httpGets when clear() last ran

containerVars ==
    <<factories, singleton_types, request_scoped_types, singletons, singleton_lock,
      instances, singleton_calls, singleton_clears, using, made,
      current_request_id, request_scope_storage>>
registryVars == <<default_container, current_container, request_container, old_container>>
cfgVars == <<auth_configs, published, presented, containerVars, registryVars, gets_at_clear>>
cacheVars == <<cache, locks, lockOwner, httpGets, clears>>
procVars == <<pc, op, uri, idx, fetchNo, result, calls>>
mgrVars == <<loaded, initializing, init_event, woken, refresh_lock, jwksGets, refreshes>>
kmVars == <<client_key_sets, lastVerify>>
vars == <<cfgVars, cacheVars, procVars, mgrVars, kmVars, faults>>

\* What an operation returned or raised.
Res(k, v) == [kind |-> k, val |-> v]
NoResult == Res("none", 0)

\* ------------------------------------------------------------ configuration
AuthConfig(prov, aud, iss, wk) ==
    [auth_provider |-> prov, audience |-> aud, issuer |-> iss, well_known_uri |-> wk]

\* configs_to_load = [c for c in self._auth_configs if c.well_known_uri]
ConfigsToLoad ==
    SelectSeq([i \in 1..Len(auth_configs) |-> i],
              LAMBDA i : auth_configs[i].well_known_uri \notin {None, ""})

\* ---------------------------------------------- WellKnownConfigurationCache
\* Fast path: "if well_known_uri in self._cache".
CacheHit(u) == cache[u] # 0

\* "async with uri_lock" goes on without suspending when the lock is free.
UriLockFree_Ignored(u) == TRUE
UriLockFree(u) == lockOwner[u] = 0

\* "async with self._locks_lock" (the cache's global lock) holds no await: the
\* lock is taken and released within one run, so no coroutine holds it at a
\* suspension point.  A coroutine that finds it held suspends.
HoldsLocksLock_WhileFetching(p) == pc[p] = "fetching"
HoldsLocksLock(p) == FALSE
LocksLockFree(p) == \A q \in Procs \ {p} : ~HoldsLocksLock(q)

\* The second look at the cache, under the per-URI lock.
DoubleCheckHit_Skipped(u) == FALSE
DoubleCheckHit(u) == cache[u] # 0

\* p issues the HTTP GET of u, holding u's lock.
StartFetch(p, u) ==
    /\ pc' = [pc EXCEPT ![p] = "fetching"]
    /\ locks' = locks \cup {u}
    /\ lockOwner' = [lockOwner EXCEPT ![u] = p]
    /\ httpGets' = [httpGets EXCEPT ![u] = @ + 1]
    /\ fetchNo' = [fetchNo EXCEPT ![p] = httpGets[u] + 1]

\* p suspends on u's lock (or on the global lock, on its way to u's lock).
WaitForUriLock(p, u) ==
    /\ pc' = [pc EXCEPT ![p] = "waitLock"]
    /\ locks' = locks \cup {u}
    /\ UNCHANGED <<lockOwner, httpGets, fetchNo>>

\* get_async(well_known_uri=u), up to its first suspension point.
GetCall(p, u) ==
    /\ pc[p] \in {"idle", "done"}
    /\ calls[p] < MaxCalls
    /\ calls' = [calls EXCEPT ![p] = @ + 1]
    /\ op' = [op EXCEPT ![p] = "get"]
    /\ uri' = [uri EXCEPT ![p] = u]
    /\ IF u = ""
         THEN /\ pc' = [pc EXCEPT ![p] = "done"]
              /\ result' = [result EXCEPT ![p] = Res("ValueError", 0)]
              /\ UNCHANGED <<locks, lockOwner, httpGets, fetchNo>>
       ELSE IF CacheHit(u)
         THEN /\ pc' = [pc EXCEPT ![p] = "done"]
              /\ result' = [result EXCEPT ![p] = Res("doc", cache[u])]
              /\ UNCHANGED <<locks, lockOwner, httpGets, fetchNo>>
       ELSE IF LocksLockFree(p) /\ UriLockFree(u)
         THEN /\ StartFetch(p, u)
              /\ result' = [result EXCEPT ![p] = NoResult]
         ELSE /\ WaitForUriLock(p, u)
              /\ result' = [result EXCEPT ![p] = NoResult]
    /\ UNCHANGED <<cache, clears, idx, faults, cfgVars, mgrVars, kmVars>>

\* clear(): self._cache.clear().  The per-URI locks stay.
Clear_KeepsEntries ==
    /\ clears < MaxClears
    /\ clears' = clears + 1
    /\ gets_at_clear' = httpGets
    /\ UNCHANGED <<cache, locks, lockOwner, httpGets, faults, procVars, mgrVars, kmVars>>
    /\ UNCHANGED <<auth_configs, published, presented, containerVars, registryVars>>
Clear ==
    /\ clears < MaxClears
    /\ clears' = clears + 1
    /\ cache' = [u \in URIs |-> 0]
    /\ gets_at_clear' = httpGets
    /\ UNCHANGED <<locks, lockOwner, httpGets, faults, procVars, mgrVars, kmVars>>
    /\ UNCHANGED <<auth_configs, published, presented, containerVars, registryVars>>


\* ------------------------------ WellKnownConfigurationManager (event-based)
\* "async with self._lock" (the manager's state mutex) holds no await either:
\* no coroutine holds it at a suspension point.
HoldsStateLock(p) == FALSE

\* The coroutines that are inside the bulk load (read_list_async).
Loaders ==
    {p \in Procs : op[p] \in {"ensure", "refresh"}
                   /\ pc[p] \in {"waitLock", "fetching", "jwks"}}

\* The coroutines suspended in "await self._init_event.wait()".
EventWaiters == {q \in Procs : pc[q] = "waitEvent"}

\* "if self._initializing: should_wait = True"
ShouldWait_Never == FALSE
ShouldWait == initializing

\* "self._initializing = True; self._init_event.clear()"
InitializerFlags_NoMark(p) ==
    /\ initializing' = FALSE
    /\ init_event' = FALSE
    /\ woken' = woken \ {p}
InitializerFlags(p) ==
    /\ initializing' = TRUE
    /\ init_event' = FALSE
    /\ woken' = woken \ {p}

\* Success: "self._loaded = True; self._initializing = False" under _lock, then
\* "self._init_event.set()", which resolves the wait() of every waiter; a
\* refresh_async that ran this load leaves "async with self._refresh_lock".
SuccessFlags(p) ==
    /\ loaded' = TRUE
    /\ initializing' = FALSE
    /\ init_event' = TRUE
    /\ woken' = (woken \cup EventWaiters) \ {p}
    /\ refresh_lock' = IF refresh_lock = p THEN 0 ELSE refresh_lock

\* "except Exception: self._initializing = False; self._init_event.set(); raise"
FailureFlags_NoSignal(p) ==
    /\ loaded' = loaded
    /\ initializing' = FALSE
    /\ init_event' = init_event
    /\ woken' = woken \ {p}
    /\ refresh_lock' = IF refresh_lock = p THEN 0 ELSE refresh_lock
FailureFlags(p) ==
    /\ loaded' = loaded
    /\ initializing' = FALSE
    /\ init_event' = TRUE
    /\ woken' = (woken \cup EventWaiters) \ {p}
    /\ refresh_lock' = IF refresh_lock = p THEN 0 ELSE refresh_lock

\* asyncio.CancelledError is a BaseException: "except Exception" does not catch
\* it, so neither flag is reset and the event is not set.  The coroutine's
\* "async with" blocks release the locks it holds.
CancelledFlags(p) ==
    /\ UNCHANGED <<loaded, initializing, init_event>>
    /\ woken' = woken \ {p}
    /\ refresh_lock' = IF refresh_lock = p THEN 0 ELSE refresh_lock

\* p issues the HTTP GET of the JWKS URI of the provider it is at.
StartJwks(p, k) ==
    /\ pc' = [pc EXCEPT ![p] = "jwks"]
    /\ jwksGets' = [jwksGets EXCEPT ![ConfigsToLoad[k]] = @ + 1]

\* read_list_async at the k-th config to load: the discovery document through
\* the cache (hit: whether the cache holds it), then the JWKS.
BeginProvider(p, k, hit) ==
    LET u == auth_configs[ConfigsToLoad[k]].well_known_uri
    IN  /\ idx' = [idx EXCEPT ![p] = k]
        /\ uri' = [uri EXCEPT ![p] = u]
        /\ IF hit
             THEN /\ StartJwks(p, k)
                  /\ UNCHANGED <<locks, lockOwner, httpGets, fetchNo>>
           ELSE IF LocksLockFree(p) /\ UriLockFree(u)
             THEN /\ StartFetch(p, u)
                  /\ UNCHANGED jwksGets
             ELSE /\ WaitForUriLock(p, u)
                  /\ UNCHANGED jwksGets

\* The operation of p ends: it returns or raises r.
Finish(p, r) ==
    /\ pc' = [pc EXCEPT ![p] = "done"]
    /\ result' = [result EXCEPT ![p] = r]

\* ensure_initialized_async from its first line up to its first suspension
\* point (also the retry "return await self.ensure_initialized_async()").
EnsureBody(p) ==
    IF loaded
      THEN /\ Finish(p, Res("ok", 0))
           /\ woken' = woken \ {p}
           /\ UNCHANGED <<loaded, initializing, init_event, refresh_lock>>
           /\ UNCHANGED <<idx, uri, locks, lockOwner, httpGets, fetchNo, jwksGets>>
    ELSE IF ShouldWait
      THEN /\ pc' = [pc EXCEPT ![p] = "waitEvent"]
           /\ woken' = IF init_event THEN woken \cup {p} ELSE woken \ {p}
           /\ UNCHANGED <<loaded, initializing, init_event, refresh_lock, result>>
           /\ UNCHANGED <<idx, uri, locks, lockOwner, httpGets, fetchNo, jwksGets>>
    ELSE IF Len(ConfigsToLoad) = 0
      THEN /\ Finish(p, Res("ok", 0))
           /\ SuccessFlags(p)
           /\ UNCHANGED <<idx, uri, locks, lockOwner, httpGets, fetchNo, jwksGets>>
      ELSE /\ InitializerFlags(p)
           /\ BeginProvider(p, 1, CacheHit(auth_configs[ConfigsToLoad[1]].well_known_uri))
           /\ UNCHANGED <<loaded, refresh_lock, result>>

EnsureCall(p) ==
    /\ pc[p] \in {"idle", "done"}
    /\ calls[p] < MaxCalls
    /\ calls' = [calls EXCEPT ![p] = @ + 1]
    /\ op' = [op EXCEPT ![p] = "ensure"]
    /\ EnsureBody(p)
    /\ UNCHANGED <<cache, clears, refreshes, faults, cfgVars, kmVars>>

\* refresh_async once it holds _refresh_lock and no initialization is awaited:
\* clear the cache, reset the flags, then ensure_initialized_async, which finds
\* _loaded and _initializing False and makes this coroutine the initializer.
RefreshProceed(p) ==
    /\ cache' = [u \in URIs |-> 0]
    /\ loaded' = FALSE
    /\ refresh_lock' = p
    /\ IF Len(ConfigsToLoad) = 0
         THEN /\ Finish(p, Res("ok", 0))
              /\ initializing' = FALSE
              /\ init_event' = TRUE
              /\ woken' = (woken \cup EventWaiters) \ {p}
              /\ UNCHANGED <<idx, uri, locks, lockOwner, httpGets, fetchNo, jwksGets>>
         ELSE /\ InitializerFlags(p)
              /\ BeginProvider(p, 1, FALSE)
              /\ UNCHANGED result

\* refresh_async from taking _refresh_lock up to its first suspension point.
RefreshEnter(p) ==
    IF initializing
      THEN /\ pc' = [pc EXCEPT ![p] = "waitEvent"]
           /\ woken' = IF init_event THEN woken \cup {p} ELSE woken \ {p}
           /\ refresh_lock' = p
           /\ UNCHANGED <<cache, loaded, initializing, init_event, result>>
           /\ UNCHANGED <<idx, uri, locks, lockOwner, httpGets, fetchNo, jwksGets>>
      ELSE RefreshProceed(p)

RefreshCall(p) ==
    /\ pc[p] \in {"idle", "done"}
    /\ calls[p] < MaxCalls
    /\ refreshes < MaxRefreshes
    /\ refreshes' = refreshes + 1
    /\ calls' = [calls EXCEPT ![p] = @ + 1]
    /\ op' = [op EXCEPT ![p] = "refresh"]
    /\ IF refresh_lock # 0
         THEN /\ pc' = [pc EXCEPT ![p] = "waitRefreshLock"]
              /\ UNCHANGED <<cache, loaded, initializing, init_event, woken, refresh_lock, result>>
              /\ UNCHANGED <<idx, uri, locks, lockOwner, httpGets, fetchNo, jwksGets>>
         ELSE RefreshEnter(p)
    /\ UNCHANGED <<clears, faults, cfgVars, kmVars>>

\* A refresh_async that waited for _refresh_lock gets it.
RefreshAcquire(p) ==
    /\ pc[p] = "waitRefreshLock"
    /\ refresh_lock = 0
    /\ RefreshEnter(p)
    /\ UNCHANGED <<op, calls, clears, refreshes, faults, cfgVars, kmVars>>

\* A waiter of _init_event whose wait() was resolved runs again.
Wake(p) ==
    /\ pc[p] = "waitEvent"
    /\ p \in woken
    /\ IF op[p] = "refresh"
         THEN RefreshProceed(p)
         ELSE /\ EnsureBody(p)
              /\ UNCHANGED cache
    /\ UNCHANGED <<op, calls, clears, refreshes, faults, cfgVars, kmVars>>

\* -------------------------------------- steps shared by get_async's callers
\* A coroutine that waited for the per-URI lock gets it and looks again.
AcquireUriLock(p) ==
    LET u == uri[p]
    IN  /\ pc[p] = "waitLock"
        /\ LocksLockFree(p) /\ UriLockFree(u)
        /\ IF DoubleCheckHit(u)
             THEN /\ UNCHANGED <<locks, lockOwner, httpGets, fetchNo>>
                  /\ IF op[p] = "get"
                       THEN /\ Finish(p, Res("doc", cache[u]))
                            /\ UNCHANGED jwksGets
                       ELSE /\ StartJwks(p, idx[p])
                            /\ UNCHANGED result
             ELSE /\ StartFetch(p, u)
                  /\ UNCHANGED <<jwksGets, result>>
        /\ UNCHANGED <<cache, clears, op, uri, idx, calls, faults, cfgVars, kmVars>>
        /\ UNCHANGED <<loaded, initializing, init_event, woken, refresh_lock, refreshes>>

\* The discovery GET answers 2xx: the document is cached and the lock released.
FetchOk(p) ==
    LET u == uri[p]
    IN  /\ pc[p] = "fetching"
        /\ cache' = [cache EXCEPT ![u] = fetchNo[p]]
        /\ lockOwner' = [lockOwner EXCEPT ![u] = 0]
        /\ IF op[p] = "get"
             THEN /\ Finish(p, Res("doc", fetchNo[p]))
                  /\ UNCHANGED jwksGets
             ELSE /\ StartJwks(p, idx[p])
                  /\ UNCHANGED result
        /\ UNCHANGED <<locks, httpGets, fetchNo, clears, op, uri, idx, calls, faults>>
        /\ UNCHANGED <<loaded, initializing, init_event, woken, refresh_lock, refreshes>>
        /\ UNCHANGED <<cfgVars, kmVars>>

\* What get_async raises for a failed GET: HTTPStatusError becomes ValueError,
\* ConnectError becomes ConnectionError, anything else (a timeout) is not caught.
FetchError_Unreachable(kind) == Res("ConnectionError", 0)
FetchError(kind) ==
    CASE kind = "status" -> Res("ValueError", 0)
      [] kind = "connect" -> Res("ConnectionError", 0)
      [] OTHER -> Res("TimeoutException", 0)

FetchFail(p, kind) ==
    LET u == uri[p]
    IN  /\ pc[p] = "fetching"
        /\ faults < MaxFaults
        /\ faults' = faults + 1
        /\ lockOwner' = [lockOwner EXCEPT ![u] = 0]
        /\ Finish(p, FetchError(kind))
        /\ IF op[p] = "get"
             THEN UNCHANGED <<loaded, initializing, init_event, woken, refresh_lock>>
             ELSE FailureFlags(p)
        /\ UNCHANGED <<cache, locks, httpGets, fetchNo, clears, op, uri, idx, calls>>
        /\ UNCHANGED <<jwksGets, refreshes, cfgVars, kmVars>>

\* The JWKS GET of the provider p is at answers 2xx.
JwksOk(p) ==
    /\ pc[p] = "jwks"
    /\ IF idx[p] = Len(ConfigsToLoad)
         THEN /\ Finish(p, Res("ok", 0))
              /\ SuccessFlags(p)
              /\ UNCHANGED <<idx, uri, locks, lockOwner, httpGets, fetchNo, jwksGets>>
         ELSE /\ BeginProvider(p, idx[p] + 1,
                       CacheHit(auth_configs[ConfigsToLoad[idx[p] + 1]].well_known_uri))
              /\ UNCHANGED <<loaded, initializing, init_event, woken, refresh_lock, result>>
    /\ UNCHANGED <<cache, clears, op, calls, refreshes, faults, cfgVars, kmVars>>

\* The JWKS GET fails: read_list_async raises.
JwksFail(p) ==
    /\ pc[p] = "jwks"
    /\ faults < MaxFaults
    /\ faults' = faults + 1
    /\ Finish(p, Res("ValueError", 0))
    /\ FailureFlags(p)
    /\ UNCHANGED <<cacheVars, op, uri, idx, fetchNo, calls, jwksGets, refreshes>>
    /\ UNCHANGED <<cfgVars, kmVars>>

\* The task running p's operation is cancelled at a suspension point.
Cancel(p) ==
    /\ pc[p] \in {"waitLock", "fetching", "jwks", "waitEvent", "waitRefreshLock"}
    /\ faults < MaxFaults
    /\ faults' = faults + 1
    /\ lockOwner' = IF pc[p] = "fetching"
                      THEN [lockOwner EXCEPT ![uri[p]] = 0] ELSE lockOwner
    /\ Finish(p, Res("Cancelled", 0))
    /\ CancelledFlags(p)
    /\ UNCHANGED <<cache, locks, httpGets, clears, op, uri, idx, fetchNo, calls>>
    /\ UNCHANGED <<jwksGets, refreshes, cfgVars, kmVars>>


\* ---------------------- WellKnownConfigurationManager (plain) and TokenReader
\* A token: the shape of the string ("empty"; "jwt"; "garbage": three segments
\* of which no JOSE header can be extracted; "nodot", "onedot", "threedots":
\* a string with that many '.'), the kid of its header, the key material that
\* signed it and its claims.
Token(shape, kid, sig, aud, cid, iss, exp) ==
    [shape |-> shape, kid |-> kid, sig |-> sig, aud |-> aud, client_id |-> cid,
     iss |-> iss, exp |-> exp]

\* "if self._loaded: return": the plain manager assigns _loaded in __init__
\* only, so the test never succeeds.
PlainLoaded_AfterLoad == client_key_sets # <<>>
PlainLoaded == FALSE

\* "if not any(k.get('kid') == key.get('kid') for k in keys): keys.append(key)"
RECURSIVE DedupByKid(_, _)
DedupByKid(keys, acc) ==
    IF keys = <<>> THEN acc
    ELSE IF \E n \in 1..Len(acc) : acc[n].kid = Head(keys).kid
      THEN DedupByKid(Tail(keys), acc)
      ELSE DedupByKid(Tail(keys), Append(acc, Head(keys)))

\* ClientKeySet(auth_config=..., jwks=KeySet(keys), kids=[kid of each key])
ClientKeySet(i, jwks) ==
    LET keys == DedupByKid(jwks, <<>>)
    IN  [provider |-> i, keys |-> keys, kids |-> {keys[n].kid : n \in 1..Len(keys)}]

\* get_client_key_set_for_kid: the position of the first ClientKeySet whose
\* kids hold kid; 0 stands for None.
GetClientKeySetForKid_Last(kid, cks) ==
    IF kid # None /\ \E j \in 1..Len(cks) : kid \in cks[j].kids
      THEN CHOOSE j \in 1..Len(cks) :
              /\ kid \in cks[j].kids
              /\ \A j2 \in (j + 1)..Len(cks) : kid \notin cks[j2].kids
      ELSE 0
GetClientKeySetForKid_OrFirst(kid, cks) ==
    IF kid # None /\ \E j \in 1..Len(cks) : kid \in cks[j].kids
      THEN CHOOSE j \in 1..Len(cks) :
              /\ kid \in cks[j].kids
              /\ \A j2 \in 1..(j - 1) : kid \notin cks[j2].kids
      ELSE IF cks = <<>> THEN 0 ELSE 1
GetClientKeySetForKid(kid, cks) ==
    IF kid = None THEN 0
    ELSE IF \E j \in 1..Len(cks) : kid \in cks[j].kids
      THEN CHOOSE j \in 1..Len(cks) :
              /\ kid \in cks[j].kids
              /\ \A j2 \in 1..(j - 1) : kid \notin cks[j2].kids
      ELSE 0

\* jwt.decode(token, client_key_set.jwks): the key of the set with the token's
\* kid verifies the signature.
JwtDecodeOk(tok, ks) ==
    \E n \in 1..Len(ks.keys) : ks.keys[n].kid = tok.kid /\ ks.keys[n].mat = tok.sig

\* audience = claims.get("aud") or claims.get("client_id")
Audience_AudOnly(tok) == tok.aud
Audience(tok) == IF tok.aud # None THEN tok.aud ELSE tok.client_id

\* "if audience is None: raise AuthorizationBearerTokenInvalidException"
MissingAudience_Never(audience) == FALSE
MissingAudience(audience) == audience = None

\* The loop over the auth configs, from the i-th on: the position of the config
\* the token is matched to, 0 if none.  TokenReader reads the list of the
\* AuthConfigReader, the one its manager holds.
RECURSIVE MatchFrom_AudienceOnly(_, _, _)
MatchFrom_AudienceOnly(i, issuer, audience) ==
    IF i > Len(auth_configs) THEN 0
    ELSE IF audience # auth_configs[i].audience
      THEN MatchFrom_AudienceOnly(i + 1, issuer, audience)
      ELSE i
RECURSIVE MatchFrom_IssuerOnly(_, _, _)
MatchFrom_IssuerOnly(i, issuer, audience) ==
    IF i > Len(auth_configs) THEN 0
    ELSE IF auth_configs[i].issuer # None /\ issuer = auth_configs[i].issuer
      THEN i
      ELSE MatchFrom_IssuerOnly(i + 1, issuer, audience)
MatchFrom_FirstOnly(i, issuer, audience) ==
    IF i > Len(auth_configs) THEN 0
    ELSE IF audience # auth_configs[i].audience THEN 0
    ELSE IF auth_configs[i].issuer # None /\ issuer # auth_configs[i].issuer THEN 0
    ELSE i
RECURSIVE MatchFrom(_, _, _)
MatchFrom(i, issuer, audience) ==
    IF i > Len(auth_configs) THEN 0
    ELSE IF audience # auth_configs[i].audience
      THEN MatchFrom(i + 1, issuer, audience)
    ELSE IF auth_configs[i].issuer # None
      THEN IF issuer = auth_configs[i].issuer
             THEN i
             ELSE MatchFrom(i + 1, issuer, audience)
      ELSE i

\* The outcome of a verify_token_async call: what it returned or raised, the
\* provider whose ClientKeySet was looked up (0: none), whether jwt.decode
\* verified the signature, and the config the claims were matched to (0: none).
Outcome(tok, o, owner, verified, matched) ==
    [tok |-> tok, outcome |-> o, owner |-> owner, verified |-> verified,
     matched |-> matched]

\* verify_token_async after the key load: the try block.  The expiry of the
\* token is looked at last (JWTClaimsRegistry().validate), after the audience
\* test and the loop over the auth configs.
VerifyToken_ExpiryFirst(tok, cks) ==
    IF tok.shape # "jwt"
      THEN Outcome(tok, "TokenInvalid", 0, FALSE, 0)
    ELSE LET j == GetClientKeySetForKid(tok.kid, cks) IN
    IF j = 0
      THEN Outcome(tok, "TokenInvalid", 0, FALSE, 0)
    ELSE IF ~JwtDecodeOk(tok, cks[j])
      THEN Outcome(tok, "TokenInvalid", cks[j].provider, FALSE, 0)
    ELSE IF tok.exp = "past"
      THEN Outcome(tok, "TokenExpired", cks[j].provider, TRUE, 0)
    ELSE IF MissingAudience(Audience(tok))
      THEN Outcome(tok, "TokenInvalid", cks[j].provider, TRUE, 0)
    ELSE LET m == MatchFrom(1, tok.iss, Audience(tok)) IN
    IF m = 0
      THEN Outcome(tok, "TokenInvalid", cks[j].provider, TRUE, 0)
      ELSE Outcome(tok, "Accepted", cks[j].provider, TRUE, m)
VerifyToken(tok, cks) ==
    IF tok.shape # "jwt"
      THEN Outcome(tok, "TokenInvalid", 0, FALSE, 0)
    ELSE LET j == GetClientKeySetForKid(tok.kid, cks) IN
    IF j = 0
      THEN Outcome(tok, "TokenInvalid", 0, FALSE, 0)
    ELSE IF ~JwtDecodeOk(tok, cks[j])
      THEN Outcome(tok, "TokenInvalid", cks[j].provider, FALSE, 0)
    ELSE IF MissingAudience(Audience(tok))
      THEN Outcome(tok, "TokenInvalid", cks[j].provider, TRUE, 0)
    ELSE LET m == MatchFrom(1, tok.iss, Audience(tok)) IN
    IF m = 0
      THEN Outcome(tok, "TokenInvalid", cks[j].provider, TRUE, 0)
    ELSE IF tok.exp = "past"
      THEN Outcome(tok, "TokenExpired", cks[j].provider, TRUE, m)
      ELSE Outcome(tok, "Accepted", cks[j].provider, TRUE, m)

EmptyToken == Token("empty", None, None, None, None, None, None)
GarbageToken == Token("garbage", None, None, None, None, None, None)

\* The tokens presented to verify_token_async.
Tokens ==
    { Token("jwt", k, m, a, c, i, e) :
        k \in {"k1", "k2"}, m \in {"m1", "m2"}, a \in {None, "a1", "a2"},
        c \in {None, "a1", "ax"}, i \in {None, "i1", "i2"}, e \in {"past", "future"} }
    \cup { GarbageToken, Token("jwt", None, "m1", "a1", None, "i1", "future") }

\* p issues the GET of the discovery document of the k-th config to load
\* (fetch_well_known_config_async: no cache, no lock).
PlainStartDiscovery(p, k) ==
    /\ pc' = [pc EXCEPT ![p] = "vdisc"]
    /\ idx' = [idx EXCEPT ![p] = k]
    /\ httpGets' = [httpGets EXCEPT ![auth_configs[ConfigsToLoad[k]].well_known_uri] = @ + 1]

\* verify_token_async returns or raises: the call of p ends with outcome o.
EndVerify(p, o) ==
    /\ Finish(p, Res(o.outcome, 0))
    /\ lastVerify' = o

\* verify_token_async(token) up to the first suspension point of the key load
\* it starts.  The token is not read before the load returns (but for the test
\* that it is not empty); the model draws it where it is first read.
VerifyCall(p, empty) ==
    /\ pc[p] \in {"idle", "done"}
    /\ calls[p] < MaxCalls
    /\ calls' = [calls EXCEPT ![p] = @ + 1]
    /\ op' = [op EXCEPT ![p] = "verify"]
    /\ IF empty
         THEN /\ EndVerify(p, Outcome(EmptyToken, "ValueError", 0, FALSE, 0))
              /\ UNCHANGED <<client_key_sets, idx, httpGets>>
       ELSE IF PlainLoaded
         THEN /\ \E tok \in presented : EndVerify(p, VerifyToken(tok, client_key_sets))
              /\ UNCHANGED <<client_key_sets, idx, httpGets>>
       ELSE IF Len(ConfigsToLoad) = 0
         THEN /\ client_key_sets' = <<>>
              /\ \E tok \in presented : EndVerify(p, VerifyToken(tok, <<>>))
              /\ UNCHANGED <<idx, httpGets>>
         ELSE /\ client_key_sets' = <<>>
              /\ PlainStartDiscovery(p, 1)
              /\ UNCHANGED <<result, lastVerify>>
    /\ UNCHANGED <<cache, locks, lockOwner, clears, uri, fetchNo, faults, cfgVars, mgrVars>>

\* TokenReader.decode_token_async.
\* token.count(".")
Dots(tok) ==
    CASE tok.shape = "nodot"     -> 0
      [] tok.shape = "onedot"    -> 1
      [] tok.shape = "threedots" -> 3
      [] OTHER                   -> 2

\* "if token.count('.') != 2: return None" lets a token with two dots pass.
TwoDots_AtLeast(tok) == Dots(tok) >= 2
TwoDots(tok) == Dots(tok) = 2

\* "if verify_signature: await self.fetch_well_known_config_and_jwks_async()"
LoadsKeys_Always(verify_signature) == TRUE
LoadsKeys(verify_signature) == verify_signature

\* decoded.claims, or json.loads(token_content.payload)
Claims(tok) == [aud |-> tok.aud, client_id |-> tok.client_id, iss |-> tok.iss,
                exp |-> tok.exp]

\* The verify_signature branch after the key load: get_kid_from_token raises
\* AuthorizationBearerTokenInvalidException; "if not client_key_set" and the
\* "except Exception" around jwt.decode both raise
\* AuthorizationBearerTokenMissingException.
DecodeVerified_Validating(tok, cks) ==
    IF tok.shape # "jwt"
      THEN Outcome(tok, "TokenInvalid", 0, FALSE, 0)
    ELSE LET j == GetClientKeySetForKid(tok.kid, cks) IN
    IF j = 0
      THEN Outcome(tok, "TokenMissing", 0, FALSE, 0)
    ELSE IF ~JwtDecodeOk(tok, cks[j])
      THEN Outcome(tok, "TokenMissing", cks[j].provider, FALSE, 0)
    ELSE IF tok.exp = "past" \/ MatchFrom(1, tok.iss, Audience(tok)) = 0
      THEN Outcome(tok, "TokenMissing", cks[j].provider, TRUE, 0)
      ELSE Outcome(tok, "Claims", cks[j].provider, TRUE, 0)
DecodeVerified(tok, cks) ==
    IF tok.shape # "jwt"
      THEN Outcome(tok, "TokenInvalid", 0, FALSE, 0)
    ELSE LET j == GetClientKeySetForKid(tok.kid, cks) IN
    IF j = 0
      THEN Outcome(tok, "TokenMissing", 0, FALSE, 0)
    ELSE IF ~JwtDecodeOk(tok, cks[j])
      THEN Outcome(tok, "TokenMissing", cks[j].provider, FALSE, 0)
      ELSE Outcome(tok, "Claims", cks[j].provider, TRUE, 0)

\* The other branch: jws.extract_compact and json.loads of the payload.
DecodeUnverified(tok) ==
    IF tok.shape # "jwt"
      THEN Outcome(tok, "TokenInvalid", 0, FALSE, 0)
      ELSE Outcome(tok, "Claims", 0, FALSE, 0)

\* decode_token_async returns or raises: the call of p ends with outcome o.
EndDecode(p, o) ==
    /\ Finish(p, Res(o.outcome, IF o.outcome = "Claims" THEN Claims(o.tok) ELSE 0))
    /\ lastVerify' = o

\* The call of p continues after the key load returned with the key sets cks.
AfterLoad(p, cks) ==
    \E tok \in presented :
        IF op[p] = "verify"
          THEN EndVerify(p, VerifyToken(tok, cks))
          ELSE EndDecode(p, DecodeVerified(tok, cks))

\* decode_token_async(token, verify_signature) up to its first suspension
\* point.
DecodeCall(p, verify_signature) ==
    /\ pc[p] \in {"idle", "done"}
    /\ calls[p] < MaxCalls
    /\ calls' = [calls EXCEPT ![p] = @ + 1]
    /\ op' = [op EXCEPT ![p] = IF verify_signature THEN "decode" ELSE "decode_unverified"]
    /\ \E tok \in presented :
         IF tok.shape = "empty"
           THEN /\ EndDecode(p, Outcome(tok, "ValueError", 0, FALSE, 0))
                /\ UNCHANGED <<client_key_sets, idx, httpGets>>
         ELSE IF ~TwoDots(tok)
           THEN /\ EndDecode(p, Outcome(tok, "None", 0, FALSE, 0))
                /\ UNCHANGED <<client_key_sets, idx, httpGets>>
         ELSE IF ~LoadsKeys(verify_signature)
           THEN /\ EndDecode(p, DecodeUnverified(tok))
                /\ UNCHANGED <<client_key_sets, idx, httpGets>>
         ELSE IF PlainLoaded
           THEN /\ EndDecode(p, DecodeVerified(tok, client_key_sets))
                /\ UNCHANGED <<client_key_sets, idx, httpGets>>
         ELSE IF Len(ConfigsToLoad) = 0
           THEN /\ client_key_sets' = <<>>
                /\ EndDecode(p, DecodeVerified(tok, <<>>))
                /\ UNCHANGED <<idx, httpGets>>
           ELSE /\ client_key_sets' = <<>>
                /\ PlainStartDiscovery(p, 1)
                /\ UNCHANGED <<result, lastVerify>>
    /\ UNCHANGED <<cache, locks, lockOwner, clears, uri, fetchNo, faults, cfgVars, mgrVars>>

\* The discovery document arrives and holds jwks_uri and issuer: p issues the
\* GET of the JWKS.
PlainDiscoveryOk(p) ==
    /\ pc[p] = "vdisc"
    /\ pc' = [pc EXCEPT ![p] = "vjwks"]
    /\ jwksGets' = [jwksGets EXCEPT ![ConfigsToLoad[idx[p]]] = @ + 1]
    /\ UNCHANGED <<cacheVars, op, uri, idx, fetchNo, result, calls, faults, cfgVars, kmVars>>
    /\ UNCHANGED <<loaded, initializing, init_event, woken, refresh_lock, refreshes>>

\* What the key load raises, out of verify_token_async (the load is outside
\* its try block): ValueError for a non-2xx status or a document without
\* jwks_uri or issuer, ConnectionError for a refused connection.
PlainLoadError(kind) == IF kind = "connect" THEN "ConnectionError" ELSE "ValueError"

PlainDiscoveryFail(p, kind) ==
    /\ pc[p] = "vdisc"
    /\ faults < MaxFaults
    /\ faults' = faults + 1
    /\ EndVerify(p, Outcome(EmptyToken, PlainLoadError(kind), 0, FALSE, 0))
    /\ UNCHANGED <<cacheVars, op, uri, idx, fetchNo, calls, cfgVars, mgrVars, client_key_sets>>

\* The JWKS arrives: the provider's ClientKeySet is appended to the manager's
\* list; then the next provider, or the load returns and the token is verified.
PlainJwksOk(p) ==
    LET i == ConfigsToLoad[idx[p]]
        cks == Append(client_key_sets, ClientKeySet(i, published[i]))
    IN  /\ pc[p] = "vjwks"
        /\ client_key_sets' = cks
        /\ IF idx[p] < Len(ConfigsToLoad)
             THEN /\ PlainStartDiscovery(p, idx[p] + 1)
                  /\ UNCHANGED <<result, lastVerify>>
             ELSE /\ AfterLoad(p, cks)
                  /\ UNCHANGED <<idx, httpGets>>
        /\ UNCHANGED <<cache, locks, lockOwner, clears, op, uri, fetchNo, calls, faults>>
        /\ UNCHANGED <<cfgVars, mgrVars>>

PlainJwksFail(p, kind) ==
    /\ pc[p] = "vjwks"
    /\ faults < MaxFaults
    /\ faults' = faults + 1
    /\ EndVerify(p, Outcome(EmptyToken, PlainLoadError(kind), 0, FALSE, 0))
    /\ UNCHANGED <<cacheVars, op, uri, idx, fetchNo, calls, cfgVars, mgrVars, client_key_sets>>

\* ----------------------------------------------- TokenReader.extract_token
\* An Authorization header is a string, or None.  The string is modelled as
\* a sequence of pieces: a whitespace character, or a run of characters that
\* are not whitespace; adjacent runs are one longer word ("Bearer" next to "A"
\* is the word "BearerA").
Whitespace == {" ", "\t"}
Words == {"Bearer", "bearer", "BEARER", "Basic", "A"}
Pieces == Whitespace \cup Words

Header(isNone, text) == [isNone |-> isNone, text |-> text]
Headers ==
    {Header(TRUE, <<>>)} \cup
    { Header(FALSE, t) : t \in UNION { [1..n -> Pieces] : n \in 0..MaxHeaderLen } }

\* str.split(): the maximal runs without whitespace, in order; leading and
\* trailing whitespace gives no empty part.
RECURSIVE SplitFrom(_, _, _)
SplitFrom(text, parts, cur) ==
    IF text = <<>>
      THEN IF cur = <<>> THEN parts ELSE Append(parts, cur)
    ELSE IF Head(text) \in Whitespace
      THEN SplitFrom(Tail(text), IF cur = <<>> THEN parts ELSE Append(parts, cur), <<>>)
      ELSE SplitFrom(Tail(text), parts, Append(cur, Head(text)))
Split(text) == SplitFrom(text, <<>>, <<>>)

\* str.lower() of a run of characters.
LowerPiece_Same(w) == w
LowerPiece(w) ==
    CASE w = "Bearer" -> "bearer"
      [] w = "BEARER" -> "bearer"
      [] w = "Basic"  -> "basic"
      [] w = "A"      -> "a"
      [] OTHER        -> w
Lower(part) == [n \in 1..Len(part) |-> LowerPiece(part[n])]

\* extract_token(authorization_header): the token, or None.
ExtractToken(h) ==
    IF h.isNone \/ h.text = <<>> THEN Res("None", 0)
    ELSE LET parts == Split(h.text) IN
         IF Len(parts) = 2 /\ Lower(parts[1]) = <<"bearer">>
           THEN Res("token", parts[2])
           ELSE Res("None", 0)

\* A caller extracts the token of the header it presents.
ExtractCall(p) ==
    /\ pc[p] \in {"idle", "done"}
    /\ calls[p] < MaxCalls
    /\ calls' = [calls EXCEPT ![p] = @ + 1]
    /\ op' = [op EXCEPT ![p] = "extract"]
    /\ \E h \in presented : Finish(p, ExtractToken(h))
    /\ UNCHANGED <<cacheVars, uri, idx, fetchNo, faults, cfgVars, mgrVars, kmVars>>

\* ------------------------------------------------------------ SimpleContainer
\* The container code runs on threads: SimpleContainer._singletons and
\* SimpleContainer._singleton_lock are class attributes shared by every
\* container object and every thread, and a thread can be preempted between
\* any two accesses to them.  One action is one such access.  The ContextVars
\* (_current_request_id, _request_scope_storage, _request_container) are local
\* to a thread's context.  One service type is resolved; an instance is
\* identified by the number of the factory invocation that made it.

\* "service_type in SimpleContainer._singletons"
SingletonCached == singletons # 0

DoubleCheckCached_Skipped == FALSE

\* The second look at _singletons, made while holding _singleton_lock.
DoubleCheckCached == SingletonCached

\* The branch of resolve() that a container takes for the type when no
\* singleton is cached: not registered, singleton, request-scoped, transient.
Lifetime(c) ==
    IF c \notin factories THEN "none"
    ELSE IF c \in singleton_types THEN "singleton"
    ELSE IF c \in request_scoped_types THEN "request"
    ELSE "transient"

\* The container a call goes through and the lifetime it had at the call.
Using(c, l) == [container |-> c, lifetime |-> l]

\* container.register(service_type, factory)
Register(c) ==
    /\ factories' = factories \cup {c}
    /\ UNCHANGED <<singleton_types, request_scoped_types>>

\* container.transient(service_type, factory): wraps the factory and registers.
RegisterTransient(c) ==
    /\ Register(c)
    /\ UNCHANGED <<singletons, singleton_lock, instances, singleton_calls,
                   singleton_clears, using, made, current_request_id,
                   request_scope_storage>>
    /\ UNCHANGED <<gets_at_clear, auth_configs, published, presented, registryVars>>
    /\ UNCHANGED <<cacheVars, procVars, mgrVars, kmVars, faults>>

\* container.singleton(service_type, factory)
RegisterSingleton(c) ==
    /\ factories' = factories \cup {c}
    /\ singleton_types' = singleton_types \cup {c}
    /\ UNCHANGED <<request_scoped_types, singletons, singleton_lock, instances,
                   singleton_calls, singleton_clears, using, made,
                   current_request_id, request_scope_storage>>
    /\ UNCHANGED <<gets_at_clear, auth_configs, published, presented, registryVars>>
    /\ UNCHANGED <<cacheVars, procVars, mgrVars, kmVars, faults>>

\* container.request_scoped(service_type, factory)
RegisterRequestScoped(c) ==
    /\ factories' = factories \cup {c}
    /\ request_scoped_types' = request_scoped_types \cup {c}
    /\ UNCHANGED <<singleton_types, singletons, singleton_lock, instances,
                   singleton_calls, singleton_clears, using, made,
                   current_request_id, request_scope_storage>>
    /\ UNCHANGED <<gets_at_clear, auth_configs, published, presented, registryVars>>
    /\ UNCHANGED <<cacheVars, procVars, mgrVars, kmVars, faults>>

\* _resolve_request_scoped: the instance cached for the current request, or a
\* new one that is cached; ContainerError outside of a request scope.
ResolveRequestScoped(p) ==
    LET request_id == current_request_id[p] IN
    IF request_id = None
      THEN /\ Finish(p, Res("ContainerError", 0))
           /\ UNCHANGED <<instances, request_scope_storage>>
      ELSE IF request_scope_storage[p][request_id] # 0
        THEN /\ Finish(p, Res("instance", request_scope_storage[p][request_id]))
             /\ UNCHANGED <<instances, request_scope_storage>>
        ELSE /\ instances' = instances + 1
             /\ request_scope_storage' =
                    [request_scope_storage EXCEPT ![p][request_id] = instances + 1]
             /\ Finish(p, Res("instance", instances + 1))

\* The last lines of resolve(): "return cast(T, factory(self))".
ResolveTransient(p) ==
    /\ instances' = instances + 1
    /\ Finish(p, Res("instance", instances + 1))
    /\ UNCHANGED request_scope_storage

\* container.resolve(service_type) up to the first point where another thread
\* matters: the unlocked look at _singletons, then the registrations of this
\* container.
ResolveCall(p, c) ==
    /\ pc[p] \in {"idle", "done"}
    /\ calls[p] < MaxResolves
    /\ calls' = [calls EXCEPT ![p] = @ + 1]
    /\ op' = [op EXCEPT ![p] = "resolve"]
    /\ using' = [using EXCEPT ![p] = Using(c, Lifetime(c))]
    /\ IF SingletonCached
         THEN /\ pc' = [pc EXCEPT ![p] = "fastRead"]
              /\ result' = [result EXCEPT ![p] = NoResult]
              /\ UNCHANGED <<instances, request_scope_storage>>
         ELSE IF c \notin factories
           THEN /\ Finish(p, Res("ServiceNotFoundError", 0))
                /\ UNCHANGED <<instances, request_scope_storage>>
           ELSE IF c \in singleton_types
             THEN /\ pc' = [pc EXCEPT ![p] = "waitSingletonLock"]
                  /\ result' = [result EXCEPT ![p] = NoResult]
                  /\ UNCHANGED <<instances, request_scope_storage>>
             ELSE IF c \in request_scoped_types
               THEN ResolveRequestScoped(p)
               ELSE ResolveTransient(p)
    /\ UNCHANGED <<factories, singleton_types, request_scoped_types, singletons,
                   singleton_lock, singleton_calls, singleton_clears, made,
                   current_request_id>>
    /\ UNCHANGED <<gets_at_clear, auth_configs, published, presented, registryVars>>
    /\ UNCHANGED <<cacheVars, uri, idx, fetchNo, mgrVars, kmVars, faults>>

\* "return cast(T, SimpleContainer._singletons[service_type])" of the fast
\* path: a KeyError if clear_singletons() ran since the look.
FastRead(p) ==
    /\ pc[p] = "fastRead"
    /\ IF SingletonCached
         THEN Finish(p, Res("instance", singletons))
         ELSE Finish(p, Res("KeyError", 0))
    /\ UNCHANGED <<containerVars, auth_configs, published, presented, registryVars, gets_at_clear>>
    /\ UNCHANGED <<cacheVars, op, uri, idx, fetchNo, calls, mgrVars, kmVars, faults>>

\* "with SimpleContainer._singleton_lock:" and the double check under it.
AcquireSingletonLock(p) ==
    /\ pc[p] = "waitSingletonLock"
    /\ singleton_lock = 0
    /\ singleton_lock' = p
    /\ pc' = [pc EXCEPT ![p] = IF DoubleCheckCached THEN "lockedRead" ELSE "factory"]
    /\ UNCHANGED <<factories, singleton_types, request_scoped_types, singletons,
                   instances, singleton_calls, singleton_clears, using, made,
                   current_request_id, request_scope_storage>>
    /\ UNCHANGED <<gets_at_clear, auth_configs, published, presented, registryVars>>
    /\ UNCHANGED <<cacheVars, op, uri, idx, fetchNo, result, calls, mgrVars,
                   kmVars, faults>>

\* The return after the double check; leaving the with block frees the lock.
LockedRead(p) ==
    /\ pc[p] = "lockedRead"
    /\ singleton_lock' = 0
    /\ IF SingletonCached
         THEN Finish(p, Res("instance", singletons))
         ELSE Finish(p, Res("KeyError", 0))
    /\ UNCHANGED <<factories, singleton_types, request_scoped_types, singletons,
                   instances, singleton_calls, singleton_clears, using, made,
                   current_request_id, request_scope_storage>>
    /\ UNCHANGED <<gets_at_clear, auth_configs, published, presented, registryVars>>
    /\ UNCHANGED <<cacheVars, op, uri, idx, fetchNo, calls, mgrVars, kmVars, faults>>

\* "service: T = factory(self)" while holding the lock.
InvokeFactory(p) ==
    /\ pc[p] = "factory"
    /\ instances' = instances + 1
    /\ singleton_calls' = singleton_calls + 1
    /\ made' = [made EXCEPT ![p] = instances + 1]
    /\ pc' = [pc EXCEPT ![p] = "store"]
    /\ UNCHANGED <<factories, singleton_types, request_scoped_types, singletons,
                   singleton_lock, singleton_clears, using, current_request_id,
                   request_scope_storage>>
    /\ UNCHANGED <<gets_at_clear, auth_configs, published, presented, registryVars>>
    /\ UNCHANGED <<cacheVars, op, uri, idx, fetchNo, result, calls, mgrVars,
                   kmVars, faults>>

\* "SimpleContainer._singletons[service_type] = service; return service"
StoreSingleton(p) ==
    /\ pc[p] = "store"
    /\ singletons' = made[p]
    /\ singleton_lock' = 0
    /\ Finish(p, Res("instance", made[p]))
    /\ UNCHANGED <<factories, singleton_types, request_scoped_types, instances,
                   singleton_calls, singleton_clears, using, made,
                   current_request_id, request_scope_storage>>
    /\ UNCHANGED <<gets_at_clear, auth_configs, published, presented, registryVars>>
    /\ UNCHANGED <<cacheVars, op, uri, idx, fetchNo, calls, mgrVars, kmVars, faults>>

\* SimpleContainer.clear_singletons(): clears the map without taking the lock.
ClearSingletons ==
    /\ singleton_clears < MaxClears
    /\ singleton_clears' = singleton_clears + 1
    /\ singletons' = 0
    /\ UNCHANGED <<factories, singleton_types, request_scoped_types, singleton_lock,
                   instances, singleton_calls, using, made, current_request_id,
                   request_scope_storage>>
    /\ UNCHANGED <<gets_at_clear, auth_configs, published, presented, registryVars>>
    /\ UNCHANGED <<cacheVars, procVars, mgrVars, kmVars, faults>>

\* SimpleContainer.begin_request_scope(request_id) in the context of thread p.
BeginRequestScope(p, request_id) ==
    /\ pc[p] \in {"idle", "done"}
    /\ current_request_id' = [current_request_id EXCEPT ![p] = request_id]
    /\ request_scope_storage' = [request_scope_storage EXCEPT ![p][request_id] = 0]
    /\ UNCHANGED <<factories, singleton_types, request_scoped_types, singletons,
                   singleton_lock, instances, singleton_calls, singleton_clears,
                   using, made>>
    /\ UNCHANGED <<gets_at_clear, auth_configs, published, presented, registryVars>>
    /\ UNCHANGED <<cacheVars, procVars, mgrVars, kmVars, faults>>

\* SimpleContainer.end_request_scope() in the context of thread p.
EndRequestScope(p) ==
    /\ pc[p] \in {"idle", "done"}
    /\ current_request_id[p] # None
    /\ request_scope_storage' =
           [request_scope_storage EXCEPT ![p][current_request_id[p]] = 0]
    /\ current_request_id' = [current_request_id EXCEPT ![p] = None]
    /\ UNCHANGED <<factories, singleton_types, request_scoped_types, singletons,
                   singleton_lock, instances, singleton_calls, singleton_clears,
                   using, made>>
    /\ UNCHANGED <<gets_at_clear, auth_configs, published, presented, registryVars>>
    /\ UNCHANGED <<cacheVars, procVars, mgrVars, kmVars, faults>>

\* ---------------------------------------------------------- ContainerRegistry
\* _default_container is a class attribute that starts as None (0).  The code
\* never declares _current_container: the class has no such attribute (-1)
\* until reset() or override() assigns it.  _request_container is a ContextVar
\* with default None (0), local to the context of a task.

\* What get_current() returns: the request container of the context if there
\* is one, otherwise the default container; a RuntimeError without either.
GetCurrentResult(p) ==
    IF request_container[p] # 0 THEN Res("container", request_container[p])
    ELSE IF default_container = 0 THEN Res("RuntimeError", 0)
    ELSE Res("container", default_container)

\* ContainerRegistry.set_default(container)
SetDefault(c) ==
    /\ default_container # c
    /\ default_container' = c
    /\ UNCHANGED <<current_container, request_container, old_container>>
    /\ UNCHANGED <<gets_at_clear, auth_configs, published, presented, containerVars>>
    /\ UNCHANGED <<cacheVars, procVars, mgrVars, kmVars, faults>>

\* ContainerRegistry.reset()
Reset ==
    /\ current_container' = default_container
    /\ UNCHANGED <<default_container, request_container, old_container>>
    /\ UNCHANGED <<gets_at_clear, auth_configs, published, presented, containerVars>>
    /\ UNCHANGED <<cacheVars, procVars, mgrVars, kmVars, faults>>

\* ContainerRegistry.set_scoped(container) in the context of p.
SetScoped(p, c) ==
    /\ request_container' = [request_container EXCEPT ![p] = c]
    /\ UNCHANGED <<default_container, current_container, old_container>>
    /\ UNCHANGED <<gets_at_clear, auth_configs, published, presented, containerVars>>
    /\ UNCHANGED <<cacheVars, procVars, mgrVars, kmVars, faults>>

\* ContainerRegistry.clear_scoped() in the context of p.
ClearScoped(p) ==
    /\ request_container[p] # 0
    /\ request_container' = [request_container EXCEPT ![p] = 0]
    /\ UNCHANGED <<default_container, current_container, old_container>>
    /\ UNCHANGED <<gets_at_clear, auth_configs, published, presented, containerVars>>
    /\ UNCHANGED <<cacheVars, procVars, mgrVars, kmVars, faults>>

\* ContainerRegistry.get_current(), called by p outside of an override block
\* or inside its own.
GetCurrent(p) ==
    /\ pc[p] \in {"idle", "done", "inOverride"}
    /\ calls[p] < MaxResolves
    /\ calls' = [calls EXCEPT ![p] = @ + 1]
    /\ result' = [result EXCEPT ![p] = GetCurrentResult(p)]
    /\ IF pc[p] = "inOverride"
         THEN UNCHANGED <<pc, op>>
         ELSE /\ pc' = [pc EXCEPT ![p] = "done"]
              /\ op' = [op EXCEPT ![p] = "get_current"]
    /\ UNCHANGED <<auth_configs, published, presented, containerVars, registryVars, gets_at_clear>>
    /\ UNCHANGED <<cacheVars, uri, idx, fetchNo, mgrVars, kmVars, faults>>

\* "async with ContainerRegistry.override(c):" up to the yield.  Reading
\* cls._current_container raises AttributeError while the class has no such
\* attribute.
OverrideEnter(p, c) ==
    /\ pc[p] \in {"idle", "done"}
    /\ calls[p] < MaxResolves
    /\ calls' = [calls EXCEPT ![p] = @ + 1]
    /\ op' = [op EXCEPT ![p] = "override"]
    /\ using' = [using EXCEPT ![p] = Using(c, "override")]
    /\ IF current_container = -1
         THEN /\ Finish(p, Res("AttributeError", 0))
              /\ UNCHANGED <<current_container, old_container>>
         ELSE /\ old_container' = [old_container EXCEPT ![p] = current_container]
              /\ current_container' = c
              /\ pc' = [pc EXCEPT ![p] = "inOverride"]
              /\ result' = [result EXCEPT ![p] = NoResult]
    /\ UNCHANGED <<default_container, request_container>>
    /\ UNCHANGED <<factories, singleton_types, request_scoped_types, singletons,
                   singleton_lock, instances, singleton_calls, singleton_clears,
                   made, current_request_id, request_scope_storage>>
    /\ UNCHANGED <<gets_at_clear, auth_configs, published, presented>>
    /\ UNCHANGED <<cacheVars, uri, idx, fetchNo, mgrVars, kmVars, faults>>

\* The finally block of override(): the body ended, normally or by exception.
OverrideExit(p, raised) ==
    /\ pc[p] = "inOverride"
    /\ current_container' = old_container[p]
    /\ Finish(p, IF raised THEN Res("BodyError", 0) ELSE Res("ok", 0))
    /\ UNCHANGED <<default_container, request_container, old_container>>
    /\ UNCHANGED <<gets_at_clear, auth_configs, published, presented, containerVars>>
    /\ UNCHANGED <<cacheVars, op, uri, idx, fetchNo, calls, mgrVars, kmVars, faults>>

\* ------------------------------------------------------------ specifications
Kids == {"k1", "k2"}
Materials == {"m1", "m2"}
Jwk(k, m) == [kid |-> k, mat |-> m]

\* Two providers as in the multi-provider tests.
DefaultConfigs ==
    << AuthConfig("provider1", "a1", "i1", "u1"),
       AuthConfig("provider2", "a2", "i2", "u2") >>

DefaultPublished == << <<Jwk("k1", "m1")>>, <<Jwk("k2", "m2")>> >>

NoVerify == Outcome(EmptyToken, "none", 0, FALSE, 0)

\* The state after construction of the cache, the manager and the coroutines.
InitState ==
    /\ cache = [u \in URIs |-> 0]
    /\ locks = {}
    /\ lockOwner = [u \in URIs |-> 0]
    /\ httpGets = [u \in URIs |-> 0]
    /\ jwksGets = [i \in 1..Len(auth_configs) |-> 0]
    /\ clears = 0
    /\ faults = 0
    /\ pc = [p \in Procs |-> "idle"]
    /\ op = [p \in Procs |-> "none"]
    /\ uri = [p \in Procs |-> ""]
    /\ idx = [p \in Procs |-> 0]
    /\ fetchNo = [p \in Procs |-> 0]
    /\ result = [p \in Procs |-> NoResult]
    /\ calls = [p \in Procs |-> 0]
    /\ loaded = FALSE
    /\ initializing = FALSE
    /\ init_event = FALSE
    /\ woken = {}
    /\ refresh_lock = 0
    /\ refreshes = 0
    /\ client_key_sets = <<>>
    /\ lastVerify = NoVerify
    /\ factories = {}
    /\ singleton_types = {}
    /\ request_scoped_types = {}
    /\ singletons = 0
    /\ singleton_lock = 0
    /\ instances = 0
    /\ singleton_calls = 0
    /\ singleton_clears = 0
    /\ using = [p \in Procs |-> [container |-> 0, lifetime |-> "none"]]
    /\ made = [p \in Procs |-> 0]
    /\ current_request_id = [p \in Procs |-> None]
    /\ request_scope_storage = [p \in Procs |-> [r \in RequestIds |-> 0]]
    /\ default_container = 0
    /\ current_container = -1
    /\ request_container = [p \in Procs |-> 0]
    /\ old_container = [p \in Procs |-> 0]
    /\ gets_at_clear = [u \in URIs |-> 0]

\* The discovery cache on its own: get_async and clear.
InitCache ==
    /\ auth_configs = DefaultConfigs
    /\ published = DefaultPublished
    /\ presented = {}
    /\ InitState

NextCache ==
    \/ \E p \in Procs, u \in URIs \cup {""} : GetCall(p, u)
    \/ Clear
    \/ \E p \in Procs : AcquireUriLock(p)
    \/ \E p \in Procs : FetchOk(p)
    \/ \E p \in Procs, kind \in {"status", "connect", "timeout"} : FetchFail(p, kind)
    \/ \E p \in Procs : Cancel(p)

SpecCache == InitCache /\ [][NextCache]_vars

\* The event-based manager over the cache: ensure_initialized_async and
\* refresh_async.  The second provider may have no well-known URI.
ManagerConfigs ==
    { DefaultConfigs,
      << AuthConfig("provider1", "a1", "i1", "u1"),
         AuthConfig("provider2", "a2", "i2", None) >> }

InitManager ==
    /\ auth_configs \in ManagerConfigs
    /\ published = DefaultPublished
    /\ presented = {}
    /\ InitState

NextManager ==
    \/ \E p \in Procs : EnsureCall(p)
    \/ \E p \in Procs : RefreshCall(p)
    \/ \E p \in Procs : RefreshAcquire(p)
    \/ \E p \in Procs : Wake(p)
    \/ \E p \in Procs : AcquireUriLock(p)
    \/ \E p \in Procs : FetchOk(p)
    \/ \E p \in Procs : FetchFail(p, "status")
    \/ \E p \in Procs : JwksOk(p)
    \/ \E p \in Procs : JwksFail(p)
    \/ \E p \in Procs : Cancel(p)

SpecManager == InitManager /\ [][NextManager]_vars


\* TokenReader over the plain manager: one caller verifies tokens of every
\* kind under every provider configuration.
VerifyConfigs ==
    { << AuthConfig("provider1", "a1", i1, "u1") >> : i1 \in {None, "i1"} }
    \cup
    { << AuthConfig("provider1", "a1", i1, "u1"),
         AuthConfig("provider2", a2, i2, "u2") >> :
        i1 \in {None, "i1"}, a2 \in {"a1", "a2"}, i2 \in {None, "i1", "i2"} }

\* What the providers' JWKS endpoints may serve: each its own key, a key under
\* the other provider's kid, the same kid twice.
PublishedChoices ==
    { << <<Jwk("k1", "m1")>>, <<Jwk("k2", "m2")>> >>,
      << <<Jwk("k1", "m1")>>, <<Jwk("k1", "m2"), Jwk("k2", "m2")>> >>,
      << <<Jwk("k1", "m1"), Jwk("k1", "m2")>>, <<Jwk("k2", "m2")>> >> }

InitVerify ==
    /\ auth_configs \in VerifyConfigs
    /\ published \in PublishedChoices
    /\ presented = Tokens
    /\ InitState

NextVerify ==
    \/ \E empty \in BOOLEAN : VerifyCall(1, empty)
    \/ PlainDiscoveryOk(1)
    \/ \E kind \in {"status", "connect"} : PlainDiscoveryFail(1, kind)
    \/ PlainJwksOk(1)
    \/ \E kind \in {"status", "connect"} : PlainJwksFail(1, kind)

SpecVerify == InitVerify /\ [][NextVerify]_vars

\* The same, also with a provider that has no audience configured.
AnyConfigs ==
    VerifyConfigs
    \cup { << AuthConfig("provider1", None, i1, "u1") >> : i1 \in {None, "i1"} }
    \cup { << AuthConfig("provider1", "a1", "i1", "u1"),
              AuthConfig("provider2", None, None, "u2") >> }

InitVerifyAny ==
    /\ auth_configs \in AnyConfigs
    /\ published \in PublishedChoices
    /\ presented = Tokens
    /\ InitState

SpecVerifyAny == InitVerifyAny /\ [][NextVerify]_vars

\* The plain manager's key load under concurrent verify_token_async calls.
KeyLoadConfigs ==
    ManagerConfigs \cup { << AuthConfig("provider1", "a1", "i1", "u1") >> }

KeyLoadTokens ==
    { Token("jwt", "k1", "m1", "a1", None, "i1", "future"),
      Token("jwt", "k2", "m2", "a2", None, "i2", "future") }

InitKeyLoad ==
    /\ auth_configs \in KeyLoadConfigs
    /\ published \in PublishedChoices
    /\ presented = KeyLoadTokens
    /\ InitState

NextKeyLoad ==
    \/ \E p \in Procs, empty \in BOOLEAN : VerifyCall(p, empty)
    \/ \E p \in Procs : PlainDiscoveryOk(p)
    \/ \E p \in Procs, kind \in {"status", "connect"} : PlainDiscoveryFail(p, kind)
    \/ \E p \in Procs : PlainJwksOk(p)
    \/ \E p \in Procs, kind \in {"status", "connect"} : PlainJwksFail(p, kind)

SpecKeyLoad == InitKeyLoad /\ [][NextKeyLoad]_vars

\* A provider rotates its signing key: refresh_async of the event-based manager
\* and verify_token_async of the TokenReader, called one after the other.
\* Coroutine 1 verifies at any time, coroutine 2 refreshes after the rotation,
\* coroutine 3 is the verification that follows the refresh.
RotatedKeys == { <<Jwk("k1", "m3")>>, <<Jwk("k3", "m3")>> }

RotateTokens ==
    { Token("jwt", "k1", "m1", "a1", None, "i1", "future"),
      Token("jwt", "k1", "m3", "a1", None, "i1", "future"),
      Token("jwt", "k3", "m3", "a1", None, "i1", "future") }

Rotated == published[1] \in RotatedKeys

\* No call is running.
Quiet == \A p \in Procs : pc[p] \in {"idle", "done"}

\* The refresh_async call has returned normally.
RefreshDone == op[2] = "refresh" /\ pc[2] = "done" /\ result[2].kind = "ok"

\* Provider 1's JWKS endpoint starts to serve the new key instead of the old.
Rotate(keys) ==
    /\ Quiet
    /\ ~Rotated
    /\ published' = [published EXCEPT ![1] = keys]
    /\ UNCHANGED <<auth_configs, presented, cacheVars, procVars, mgrVars, kmVars, faults>>
    /\ UNCHANGED <<containerVars, registryVars, gets_at_clear>>

InitRotate ==
    /\ auth_configs = DefaultConfigs
    /\ published = DefaultPublished
    /\ presented = RotateTokens
    /\ InitState

NextRotate ==
    \/ Quiet /\ VerifyCall(1, FALSE)
    \/ \E keys \in RotatedKeys : Rotate(keys)
    \/ Quiet /\ Rotated /\ RefreshCall(2)
    \/ Quiet /\ Rotated /\ RefreshDone /\ VerifyCall(3, FALSE)
    \/ FetchOk(2)
    \/ FetchFail(2, "status")
    \/ JwksOk(2)
    \/ JwksFail(2)
    \/ \E p \in {1, 3} : PlainDiscoveryOk(p)
    \/ \E p \in {1, 3} : PlainDiscoveryFail(p, "status")
    \/ \E p \in {1, 3} : PlainJwksOk(p)
    \/ \E p \in {1, 3} : PlainJwksFail(p, "status")

SpecRotate == InitRotate /\ [][NextRotate]_vars

\* asyncio runs every coroutine that is ready, and an HTTP request ends (the
\* client has a default timeout): a suspended step that can go on does.
SpecManagerFair ==
    /\ InitManager
    /\ [][NextManager]_vars
    /\ \A p \in Procs :
         /\ WF_vars(Wake(p))
         /\ WF_vars(AcquireUriLock(p))
         /\ WF_vars(RefreshAcquire(p))
         /\ WF_vars(FetchOk(p))
         /\ WF_vars(JwksOk(p))

\* extract_token on every header of at most MaxHeaderLen pieces.
InitExtract ==
    /\ auth_configs = <<>>
    /\ published = <<>>
    /\ presented \in { {h} : h \in Headers }
    /\ InitState

NextExtract == ExtractCall(1)

SpecExtract == InitExtract /\ [][NextExtract]_vars

\* decode_token_async, with and without verification, by concurrent callers.
DecodeTokens ==
    { Token("jwt", k, m, a, None, "i1", e) :
        k \in {None, "k1", "k9"}, m \in {"m1", "m9"}, a \in {"a1", "ax"},
        e \in {"past", "future"} }
    \cup { Token(sh, None, None, None, None, None, None) :
             sh \in {"empty", "garbage", "nodot", "onedot", "threedots"} }

InitDecode ==
    /\ auth_configs = DefaultConfigs
    /\ published = DefaultPublished
    /\ presented \in { {t} : t \in DecodeTokens }
    /\ InitState

NextDecode ==
    \E p \in Procs :
        \/ DecodeCall(p, TRUE)
        \/ DecodeCall(p, FALSE)
        \/ PlainDiscoveryOk(p)
        \/ PlainDiscoveryFail(p, "status")
        \/ PlainJwksOk(p)
        \/ PlainJwksFail(p, "status")

SpecDecode == InitDecode /\ [][NextDecode]_vars

\* Threads that register the type in two containers, resolve it through them,
\* begin and end request scopes, and clear the singletons.
Threads == {1, 2}

InitContainer ==
    /\ auth_configs = <<>>
    /\ published = <<>>
    /\ presented = {}
    /\ InitState

NextContainer ==
    \/ \E c \in Containers : RegisterSingleton(c) \/ RegisterTransient(c)
    \/ \E p \in Threads, c \in Containers : ResolveCall(p, c)
    \/ \E p \in Threads : FastRead(p)
    \/ \E p \in Threads : AcquireSingletonLock(p)
    \/ \E p \in Threads : LockedRead(p)
    \/ \E p \in Threads : InvokeFactory(p)
    \/ \E p \in Threads : StoreSingleton(p)
    \/ ClearSingletons

SpecContainer == InitContainer /\ [][NextContainer]_vars

\* Threads that resolve a type through two containers inside and outside of
\* request scopes; a container has it request-scoped or singleton.
NextScope ==
    \/ \E c \in Containers : RegisterSingleton(c) \/ RegisterRequestScoped(c)
    \/ \E p \in Threads, c \in Containers : ResolveCall(p, c)
    \/ \E p \in Threads : FastRead(p)
    \/ \E p \in Threads : AcquireSingletonLock(p)
    \/ \E p \in Threads : LockedRead(p)
    \/ \E p \in Threads : InvokeFactory(p)
    \/ \E p \in Threads : StoreSingleton(p)
    \/ \E p \in Threads, r \in RequestIds : BeginRequestScope(p, r)
    \/ \E p \in Threads : EndRequestScope(p)

SpecScope == InitContainer /\ [][NextScope]_vars

\* Tasks that set the default and the request containers, read the current
\* container, and override it.
NextRegistry ==
    \/ \E c \in Containers : SetDefault(c)
    \/ Reset
    \/ \E p \in Threads, c \in Containers : SetScoped(p, c)
    \/ \E p \in Threads : ClearScoped(p)
    \/ \E p \in Threads : GetCurrent(p)
    \/ \E p \in Threads, c \in Containers : OverrideEnter(p, c)
    \/ \E p \in Threads, raised \in BOOLEAN : OverrideExit(p, raised)

SpecRegistry == InitContainer /\ [][NextRegistry]_vars

\* ------------------------------------------------------------------- claims
\* The coroutines suspended in the HTTP GET of the discovery document u.
InFlight(u) == {p \in Procs : pc[p] = "fetching" /\ uri[p] = u}

\* The get_async calls for u that have returned.
Returned(u) == {p \in Procs : op[p] = "get" /\ uri[p] = u /\ pc[p] = "done"}

\* The audience the claims speak of: aud, else client_id.
EffectiveAudience(tok) == IF tok.aud = None THEN tok.client_id ELSE tok.aud

\* Config c binds the token: its audience is the token's and, when it has an
\* issuer, its issuer is the token's.
Binds(c, tok) ==
    /\ c.audience = EffectiveAudience(tok)
    /\ c.issuer # None => c.issuer = tok.iss

BoundToSome(tok) == \E i \in 1..Len(auth_configs) : Binds(auth_configs[i], tok)

PlainLoading == {p \in Procs : pc[p] \in {"vdisc", "vjwks"}}

\* C3: after the key load, a kid that get_client_key_set_for_kid finds is in
\* the kids of the ClientKeySet returned and of no other ClientKeySet.
C3_KidExclusive ==
    (PlainLoading = {} /\ faults = 0) =>
        \A kid \in Kids :
            LET j == GetClientKeySetForKid(kid, client_key_sets)
            IN  j # 0 =>
                  /\ kid \in client_key_sets[j].kids
                  /\ \A j2 \in 1..Len(client_key_sets) :
                        j2 # j => kid \notin client_key_sets[j2].kids

\* C6: concurrent verify calls against one provider, every request answered,
\* make one discovery GET and one JWKS GET in total.
C6_OneFetchForAllVerifies ==
    (Len(auth_configs) = 1 /\ faults = 0) =>
        /\ httpGets[auth_configs[1].well_known_uri] <= 1
        /\ jwksGets[1] <= 1

\* C4: at every instant at most one coroutine is inside the manager's bulk
\* load, under every interleaving of ensure_initialized_async and refresh_async.
C4_AtMostOneLoader == Cardinality(Loaders) <= 1

\* C5: concurrent ensure_initialized_async calls on a fresh manager (no refresh,
\* every request answered) fetch each provider's discovery document and each
\* provider's JWKS exactly once: never more than once, and once as soon as a
\* call has returned.
C5_EachEndpointOnce ==
    (refreshes = 0 /\ faults = 0) =>
        \A k \in 1..Len(ConfigsToLoad) :
            LET i == ConfigsToLoad[k]
                u == auth_configs[i].well_known_uri
            IN  /\ httpGets[u] <= 1
                /\ jwksGets[i] <= 1
                /\ (\E p \in Procs : op[p] = "ensure" /\ pc[p] = "done")
                      => (httpGets[u] = 1 /\ jwksGets[i] = 1)

\* Three concurrent callers have all returned from a two-provider load.
C5_Witness ==
    /\ refreshes = 0
    /\ faults = 0
    /\ Len(ConfigsToLoad) = 2
    /\ \A p \in Procs : op[p] = "ensure" /\ pc[p] = "done" /\ result[p].kind = "ok"

\* C7: get_async calls for a URI, concurrent or one after the other, with no
\* clear() and every request answered, make one HTTP GET of that URI, and
\* every caller gets the document of that GET.
C7_SingleFetch ==
    (clears = 0 /\ faults = 0) =>
        \A u \in URIs :
            /\ httpGets[u] <= 1
            /\ \A p \in Returned(u) : httpGets[u] = 1 /\ result[p] = Res("doc", 1)

\* All callers asked for the same URI and have their document.
C7_Witness ==
    /\ clears = 0
    /\ faults = 0
    /\ \A p \in Procs : p \in Returned("u1") /\ result[p].kind = "doc"

\* C8: at most one HTTP fetch is in flight for a URI, also after clear().
C8_OneInFlightPerUri == \A u \in URIs : Cardinality(InFlight(u)) <= 1

\* After a clear(), a fetch of u1 is in flight and another caller waits for it.
C8_Witness ==
    /\ clears > 0
    /\ InFlight("u1") # {}
    /\ \E q \in Procs : pc[q] = "waitLock" /\ uri[q] = "u1"

\* An initializer was cancelled: _initializing stays True with nobody loading.
Orphaned == initializing /\ Loaders = {}

\* C9: a bulk load that fails with an exception resets _initializing and sets
\* the event, which wakes every waiter; a coroutine waiting in
\* ensure_initialized_async does not wait forever: it returns or raises
\* (unless an initializer is cancelled, which is C10's case).
C9_FailureWakesWaiters ==
    /\ [][\A p \in Procs :
            (p \in Loaders /\ pc'[p] = "done" /\ result'[p].kind = "ValueError")
               => (~initializing' /\ init_event' /\ EventWaiters \subseteq woken')]_vars
    /\ \A q \in Procs :
          (pc[q] = "waitEvent" /\ op[q] = "ensure") ~> (pc[q] = "done" \/ Orphaned)

\* A load has just failed and a waiter has been woken to retry.
C9_Witness ==
    /\ ~loaded
    /\ ~initializing
    /\ init_event
    /\ \E p, q \in Procs :
          /\ op[p] = "ensure" /\ pc[p] = "done" /\ result[p].kind = "ValueError"
          /\ op[q] = "ensure" /\ pc[q] = "waitEvent" /\ q \in woken

\* C10: when the initializer is cancelled during the bulk load, _initializing
\* is cleared and the event is set.
C10_CancelledInitializerSignals ==
    [][\A p \in Procs :
          (Loaders = {p} /\ pc'[p] = "done" /\ result'[p].kind = "Cancelled")
             => (~initializing' /\ init_event')]_vars

\* C16: verify of a correctly-signed token whose exp is in the past raises
\* TokenExpired, never TokenInvalid.
C16_ExpiredRaisesTokenExpired ==
    (lastVerify.verified /\ lastVerify.tok.exp = "past")
        => lastVerify.outcome = "TokenExpired"

\* Some provider's audience is the token's client_id and it has no issuer.
ClientIdProvider(tok) ==
    \E i \in 1..Len(auth_configs) :
        auth_configs[i].audience = tok.client_id /\ auth_configs[i].issuer = None

C18_NoAudienceIsInvalid ==
    (lastVerify.verified /\ lastVerify.tok.aud = None
        /\ lastVerify.tok.client_id = None)
        => lastVerify.outcome = "TokenInvalid"

\* Such a token was rejected although a provider has no audience configured.
C18_Witness ==
    /\ lastVerify.verified
    /\ lastVerify.tok.aud = None
    /\ lastVerify.tok.client_id = None
    /\ lastVerify.outcome = "TokenInvalid"
    /\ \E i \in 1..Len(auth_configs) : auth_configs[i].audience = None

\* The token's audience and issuer are the configured values of provider k.
EqualsProvider(k, tok) ==
    /\ EffectiveAudience(tok) # None
    /\ auth_configs[k].audience = EffectiveAudience(tok)
    /\ auth_configs[k].issuer = tok.iss

IssuerOfSome(tok) ==
    \E i \in 1..Len(auth_configs) :
        auth_configs[i].issuer # None /\ auth_configs[i].issuer = tok.iss

\* No provider has the token's audience.
AudienceOfNone(tok) ==
    \A i \in 1..Len(auth_configs) : auth_configs[i].audience # EffectiveAudience(tok)

VerifyOutcomes == {"Accepted", "TokenInvalid", "TokenExpired"}

\* A key load of the plain manager has run to its end.
LoadCompleted ==
    \E q \in Procs : op[q] = "verify" /\ pc[q] = "done" /\ result[q].kind \in VerifyOutcomes

\* C11: once a key load has completed, a later call returns at once: it makes
\* no HTTP request and leaves the installed ClientKeySets as they are.
C11_LaterCallReturnsAtOnce ==
    [][\A p \in Procs :
          (LoadCompleted /\ pc[p] \in {"idle", "done"} /\ calls'[p] = calls[p] + 1
              /\ op'[p] = "verify")
             => /\ httpGets' = httpGets
                /\ jwksGets' = jwksGets
                /\ client_key_sets' = client_key_sets]_vars

\* The ClientKeySets of a complete load: one for every provider with a
\* well-known URI, built from the JWKS it publishes.
CompleteKeySets ==
    [k \in 1..Len(ConfigsToLoad) |->
        ClientKeySet(ConfigsToLoad[k], published[ConfigsToLoad[k]])]

\* C15: a verification that runs while another caller loads the keys looks its
\* kid up in a complete list of ClientKeySets, never in an empty or partly
\* filled one.
C15_LookupInCompleteKeySets ==
    [][\A p \in Procs :
          (pc[p] = "vjwks" /\ pc'[p] = "done" /\ result'[p].kind \in VerifyOutcomes)
             => client_key_sets' = CompleteKeySets]_vars

\* p's ensure_initialized_async returns normally in this step.
EnsureReturns(p) ==
    /\ op'[p] = "ensure"
    /\ pc'[p] = "done"
    /\ result'[p].kind = "ok"
    /\ (pc[p] # "done" \/ calls'[p] # calls[p])

\* C12: with no refresh, every ensure_initialized_async call returns normally
\* only when _loaded is True and no load is running, and from then on what the
\* load installed does not change (no document is replaced, nothing is
\* fetched): all the calls observe the state of the one successful load.
C12_SameStateObserved ==
    /\ [][\A p \in Procs :
            (refreshes' = 0 /\ EnsureReturns(p))
               => (loaded' /\ ~initializing' /\ Loaders' = {})]_vars
    /\ [][(refreshes' = 0 /\ loaded)
             => /\ loaded'
                /\ cache' = cache
                /\ httpGets' = httpGets
                /\ jwksGets' = jwksGets]_vars

\* The initializer has returned and a caller that waited on the event has
\* been woken and is about to return.
C12_Witness ==
    /\ refreshes = 0
    /\ loaded
    /\ \E p, q \in Procs :
          /\ op[p] = "ensure" /\ pc[p] = "done" /\ result[p].kind = "ok" /\ idx[p] > 0
          /\ op[q] = "ensure" /\ pc[q] = "waitEvent" /\ q \in woken

\* refresh_async of p clears the cache and resets the flags in this step.
RefreshResets(p) ==
    /\ op'[p] = "refresh"
    /\ pc[p] \in {"idle", "done", "waitRefreshLock", "waitEvent"}
    /\ pc'[p] \in {"waitLock", "fetching", "jwks"}

\* C13: refresh_async clears the cache and resets _loaded/_initializing only
\* when no other coroutine is inside the bulk load.
C13_RefreshWaitsForLoad ==
    [][\A p \in Procs : RefreshResets(p) => Loaders \ {p} = {}]_vars

\* Some provider's JWKS endpoint serves the key that signed the token, under
\* the token's kid.
SignedByPublished(tok) ==
    \E i \in 1..Len(published) : \E n \in 1..Len(published[i]) :
        published[i][n].kid = tok.kid /\ published[i][n].mat = tok.sig

\* The verdict on a token under the keys that are published now.
FreshVerdict(o) ==
    /\ (SignedByPublished(o.tok) /\ BoundToSome(o.tok) /\ o.tok.exp = "future")
          => o.outcome = "Accepted"
    /\ ~SignedByPublished(o.tok) => o.outcome = "TokenInvalid"

BearerShape(text, a, b, c) ==
    /\ a + 2 <= b /\ b + 1 <= c /\ c <= Len(text)
    /\ \A n \in 1..a : text[n] \in Whitespace
    /\ text[a + 1] \in {"Bearer", "bearer", "BEARER"}
    /\ \A n \in (a + 2)..b : text[n] \in Whitespace
    /\ \A n \in (b + 1)..c : text[n] \notin Whitespace
    /\ \A n \in (c + 1)..Len(text) : text[n] \in Whitespace

HasBearerShape(h) ==
    /\ ~h.isNone
    /\ \E a, b, c \in 0..Len(h.text) : BearerShape(h.text, a, b, c)

\* C21: extract_token returns the token exactly when the header is the scheme
\* "Bearer" (in any case) and one token, separated by whitespace: then it
\* returns that token; for None, "", another scheme, "Bearer" alone and
\* "Bearer A B" it returns None.
C21_ExtractsBearerToken ==
    \A p \in Procs : \A h \in presented :
        (op[p] = "extract" /\ pc[p] = "done") =>
            /\ HasBearerShape(h) =>
                 /\ result[p].kind = "token"
                 /\ \A a, b, c \in 0..Len(h.text) :
                        BearerShape(h.text, a, b, c) =>
                            result[p].val = SubSeq(h.text, b + 1, c)
            /\ ~HasBearerShape(h) => result[p].kind = "None"

C21_Witness ==
    /\ presented = {Header(FALSE, <<" ", "BEARER", "\t", " ", "A">>)}
    /\ op[1] = "extract" /\ pc[1] = "done"
    /\ result[1].kind = "token" /\ result[1].val = <<"A">>


DecodeOps == {"decode", "decode_unverified"}
NoHttpYet ==
    /\ \A u \in URIs : httpGets[u] = 0
    /\ \A i \in 1..Len(auth_configs) : jwksGets[i] = 0

\* C22: decode_token_async returns None for every non-empty token that does
\* not hold exactly two '.', whatever verify_signature is, and the call loads
\* no keys and sends no HTTP request.
C22_NotThreeSegmentsGivesNone ==
    \A p \in Procs : \A tok \in presented :
        (op[p] \in DecodeOps /\ pc[p] # "idle" /\ tok.shape # "empty" /\ Dots(tok) # 2) =>
            /\ pc[p] = "done"
            /\ result[p].kind = "None"
            /\ NoHttpYet
            /\ client_key_sets = <<>>

C22_Witness ==
    /\ \E tok \in presented : tok.shape = "threedots"
    /\ op[1] = "decode" /\ pc[1] = "done" /\ result[1].kind = "None"
    /\ op[2] = "decode_unverified" /\ pc[2] = "done" /\ result[2].kind = "None"

\* C23: decode_token_async(token, verify_signature=False) is a function of the
\* token alone: two calls with the same token end the same way, whatever
\* happened in between, and a call loads no keys, changes nothing in the key
\* manager or the cache and sends no HTTP request.
C23_UnverifiedDecodeIsPure ==
    /\ [](\A p, q \in Procs :
            (op[p] = "decode_unverified" /\ pc[p] = "done" /\
             op[q] = "decode_unverified" /\ pc[q] = "done") =>
                /\ result[p].kind = result[q].kind
                /\ result[p].kind = "Claims" => result[p].val = result[q].val)
    /\ [][\A p \in Procs :
            (op'[p] = "decode_unverified" /\ calls'[p] # calls[p]) =>
                /\ pc'[p] = "done"
                /\ UNCHANGED <<cacheVars, mgrVars, client_key_sets>>]_vars

C23_Witness ==
    /\ op[1] = "decode_unverified" /\ pc[1] = "done" /\ result[1].kind = "Claims"
    /\ op[2] = "decode" /\ pc[2] = "done" /\ client_key_sets # <<>>
    /\ op[3] = "decode_unverified" /\ pc[3] = "done" /\ result[3].kind = "Claims"
    /\ result[1].val = result[3].val

\* C24: decode_token_async(token, verify_signature=True) raises KeyNotFound
\* when the kid of the token is in no ClientKeySet and TokenInvalid when the
\* signature does not verify: two distinct kinds of error.
C24_DistinctErrorKinds ==
    (lastVerify.tok.shape = "jwt" /\ lastVerify.tok.kid # None /\
     lastVerify.outcome # "Claims") =>
        IF lastVerify.owner = 0
          THEN lastVerify.outcome = "KeyNotFound"
          ELSE lastVerify.outcome = "TokenInvalid"


\* The kid of the token is in none of the ClientKeySets of the manager (the
\* ones the last verification looked in, as long as no later call is loading).
KidUnknown(tok) ==
    \A j \in 1..Len(client_key_sets) : tok.kid \notin client_key_sets[j].kids

\* C25: verify_token_async raises TokenInvalid when the JOSE header of the
\* token cannot be parsed or holds no kid, and when its kid is in no
\* ClientKeySet; in these cases no key set is chosen and no signature
\* verification is attempted.
C25_NoKeyNoVerification ==
    LET tok == lastVerify.tok IN
    (PlainLoading = {} /\ tok.shape # "empty" /\
     (tok.shape # "jwt" \/ tok.kid = None \/ KidUnknown(tok))) =>
        /\ lastVerify.outcome = "TokenInvalid"
        /\ lastVerify.owner = 0
        /\ ~lastVerify.verified

C25_Witness ==
    /\ PlainLoading = {}
    /\ lastVerify.tok.shape = "jwt" /\ lastVerify.tok.kid # None
    /\ client_key_sets # <<>> /\ KidUnknown(lastVerify.tok)
    /\ lastVerify.outcome = "TokenInvalid"


\* q starts a get_async of u in this step.
GetStarts(q, u) == op'[q] = "get" /\ calls'[q] # calls[q] /\ uri'[q] = u

\* q sends a new HTTP GET of u in this step.
NewGet(q, u) ==
    /\ pc'[q] = "fetching" /\ uri'[q] = u
    /\ httpGets'[u] = httpGets[u] + 1

\* C26: a get_async(u) whose GET is answered with a non-2xx status raises the
\* discovery-failed error (ValueError), leaves the cache without an entry for
\* u and releases u's lock, so that the next get_async(u), or the next caller
\* that waited for u's lock, sends a new GET.
C26_StatusFailureLeavesNothing ==
    /\ [][\A p \in Procs :
            (op[p] = "get" /\ FetchFail(p, "status")) =>
                /\ result'[p].kind = "ValueError"
                /\ cache'[uri[p]] = 0
                /\ lockOwner'[uri[p]] = 0]_vars
    /\ [][\A q \in Procs : \A u \in URIs :
            (cache[u] = 0 /\ lockOwner[u] = 0 /\
             (GetStarts(q, u) \/ (pc[q] = "waitLock" /\ uri[q] = u /\ pc'[q] # "waitLock"
                                   /\ result'[q].kind # "Cancelled"))) =>
                NewGet(q, u)]_vars

C26_Witness ==
    \E p, q \in Procs :
        /\ op[p] = "get" /\ pc[p] = "done" /\ uri[p] = "u1"
        /\ result[p].kind = "ValueError" /\ fetchNo[p] = 1
        /\ op[q] = "get" /\ pc[q] = "fetching" /\ uri[q] = "u1" /\ fetchNo[q] = 2
        /\ clears = 0

\* C27: a get_async whose GET fails because the connection is refused or
\* because it times out raises the unreachable error (ConnectionError) and
\* caches nothing.
C27_TransportFailureIsUnreachable ==
    [][\A p \in Procs :
         (op[p] = "get" /\ (FetchFail(p, "connect") \/ FetchFail(p, "timeout"))) =>
             /\ result'[p].kind = "ConnectionError"
             /\ cache' = cache]_vars

\* C28: when clear() returns the cache is empty (size() is 0); the first
\* get_async after it, for a URI that was cached, sends a new GET, and the
\* answer is cached again.
C28_ClearEmptiesTheCache ==
    /\ [][clears' # clears => \A u \in URIs : cache'[u] = 0]_vars
    /\ [][\A q \in Procs : \A u \in URIs :
            (clears > 0 /\ httpGets[u] > 0 /\ cache[u] = 0 /\ lockOwner[u] = 0 /\
             GetStarts(q, u)) => NewGet(q, u)]_vars
    /\ [][\A q \in Procs :
            (op[q] = "get" /\ pc[q] = "fetching" /\ result'[q].kind = "doc") =>
                /\ cache'[uri[q]] = result'[q].val
                /\ cache'[uri[q]] # 0]_vars

C28_Witness ==
    \E p, q \in Procs :
        /\ clears = 1
        /\ op[p] = "get" /\ pc[p] = "done" /\ uri[p] = "u1" /\ result[p] = Res("doc", 1)
        /\ op[q] = "get" /\ pc[q] = "done" /\ uri[q] = "u1" /\ result[q] = Res("doc", 2)
        /\ cache["u1"] = 2 /\ httpGets["u1"] = 2 /\ faults = 0

Reversed(cks) == [n \in 1..Len(cks) |-> cks[Len(cks) + 1 - n]]

Publishers(kid) ==
    {i \in 1..Len(auth_configs) : \E n \in 1..Len(published[i]) : published[i][n].kid = kid}

FirstPublisher(kid) ==
    CHOOSE i \in Publishers(kid) : \A i2 \in Publishers(kid) : i <= i2

\* A key of provider i with this kid and this material.
Serves(i, kid, mat) ==
    \E n \in 1..Len(published[i]) : published[i][n].kid = kid /\ published[i][n].mat = mat

\* C35: when several providers publish the same kid, the lookup of the kid
\* gives the ClientKeySet of the first of them in configuration order, and a
\* token signed with a later provider's key under that kid, a key the first
\* provider does not serve, fails verification with TokenInvalid.
C35_FirstPublisherOwnsKid ==
    LET tok == lastVerify.tok IN
    (PlainLoading = {} /\ lastVerify.outcome \in VerifyOutcomes /\ tok.shape = "jwt"
        /\ tok.kid # None /\ Cardinality(Publishers(tok.kid)) >= 2) =>
        LET j == GetClientKeySetForKid(tok.kid, client_key_sets) IN
        /\ j # 0
        /\ client_key_sets[j].provider = FirstPublisher(tok.kid)
        /\ lastVerify.owner = FirstPublisher(tok.kid)
        /\ ~Serves(FirstPublisher(tok.kid), tok.kid, tok.sig) =>
              lastVerify.outcome = "TokenInvalid"

C35_Witness ==
    LET tok == lastVerify.tok IN
    /\ PlainLoading = {} /\ tok.shape = "jwt" /\ tok.kid = "k1"
    /\ Publishers("k1") = {1, 2}
    /\ Serves(2, "k1", tok.sig) /\ ~Serves(1, "k1", tok.sig)
    /\ Binds(auth_configs[2], tok) /\ tok.exp = "future"
    /\ lastVerify.owner = 1 /\ lastVerify.outcome = "TokenInvalid"


\* C36: the ClientKeySet list of the manager is replaced as a whole only: in
\* every state it is empty or the complete result of one load; a load in
\* progress, or one that failed part-way, shows none of its key sets.
C36_InstalledAsAWhole ==
    \/ client_key_sets = <<>>
    \/ client_key_sets = CompleteKeySets


C38_DecodeSkipsExpiryAndBinding ==
    \A p \in Procs : \A tok \in presented :
        (op[p] = "decode" /\ pc[p] = "done" /\ faults = 0
            /\ (\A q \in Procs \ {p} : op[q] # "decode")
            /\ tok.shape = "jwt" /\ tok.kid # None /\ Publishers(tok.kid) # {}
            /\ Serves(FirstPublisher(tok.kid), tok.kid, tok.sig)) =>
                /\ result[p].kind = "Claims"
                /\ result[p].val = Claims(tok)

C38_Witness ==
    \E tok \in presented :
        /\ tok.shape = "jwt" /\ tok.exp = "past" /\ ~BoundToSome(tok)
        /\ op[1] = "decode" /\ pc[1] = "done"
        /\ result[1].kind = "Claims" /\ result[1].val = Claims(tok)


\* C39: after clear() has returned, a document that the cache holds comes
\* from a GET that started after the clear(): a GET of the URI that had
\* started when clear() last ran is not the source of the cached document.
C39_NoStaleRepopulation ==
    \A u \in URIs :
        (clears > 0 /\ cache[u] # 0) => cache[u] > gets_at_clear[u]


\* C40: in every state of the event-based manager _initializing is true
\* exactly when one coroutine is inside the bulk load, and _loaded and
\* _initializing are never both true.
C40_FlagTracksInitializer ==
    /\ initializing <=> Cardinality(Loaders) = 1
    /\ ~(loaded /\ initializing)


\* The resolve calls that returned and that went through a container that
\* had the type registered with lifetime l.
Resolved(l) ==
    {p \in Procs : op[p] = "resolve" /\ pc[p] = "done" /\ using[p].lifetime = l}

\* C31: for a type registered as singleton, as long as clear_singletons has
\* not been called, the factory has been invoked at most once over all threads
\* and containers, and every resolve through a container that has the type as
\* a singleton returned the one instance that SimpleContainer._singletons holds.
C31_SingletonMadeOnce ==
    singleton_clears = 0 =>
        /\ singleton_calls <= 1
        /\ \A p \in Resolved("singleton") :
              /\ result[p].kind = "instance"
              /\ singletons # 0
              /\ result[p].val = singletons

\* Two threads resolved the singleton through two different containers, each
\* having had to wait for the lock or to read the map.
C31_Witness ==
    /\ singleton_clears = 0
    /\ \E p, q \in Resolved("singleton") :
          /\ p # q
          /\ using[p].container # using[q].container
          /\ calls[p] = 1 /\ calls[q] = 1
          /\ result[p] = result[q]
          /\ result[p].kind = "instance"

\* The resolve call of thread p returns in this step.
Completes(p) ==
    /\ op'[p] = "resolve"
    /\ pc'[p] = "done"
    /\ pc[p] \notin {"idle", "done"} \/ calls'[p] # calls[p]

\* C32: every resolve through a container that has the type registered as
\* transient returns an instance made by a factory invocation of that very
\* call, hence one that no earlier resolve returned.
C32_TransientAlwaysNew ==
    [][\A p \in Procs :
          (Completes(p) /\ using'[p].lifetime = "transient") =>
              /\ instances' = instances + 1
              /\ result'[p] = Res("instance", instances + 1)]_vars

\* The scopes: a thread's context and a request id begun in it.
Scopes == Procs \X RequestIds

\* A resolve through a container that has the type request-scoped, made
\* inside a request scope, returns the instance the scope holds, or a new one
\* which the scope holds from then on.
SameWithinScope ==
    \A p \in Procs :
        (/\ Completes(p)
         /\ using'[p].lifetime = "request"
         /\ current_request_id[p] # None) =>
            LET held == request_scope_storage[p][current_request_id[p]] IN
            /\ result'[p].kind = "instance"
            /\ result'[p].val = IF held # 0 THEN held ELSE instances + 1
            /\ request_scope_storage'[p][current_request_id[p]] = result'[p].val

\* No instance is held by two scopes.
DistinctAcrossScopes ==
    \A s, t \in Scopes :
        (s # t /\ request_scope_storage[s[1]][s[2]] # 0) =>
            request_scope_storage[s[1]][s[2]] # request_scope_storage[t[1]][t[2]]

\* end_request_scope leaves nothing held for the scope that ends.
EndDiscards ==
    \A p \in Procs :
        (current_request_id[p] # None /\ current_request_id'[p] = None) =>
            request_scope_storage'[p][current_request_id[p]] = 0

\* C33: a request-scoped service resolves to the same instance for every
\* resolve within one scope and to distinct instances in distinct scopes, and
\* ending a scope discards its instances.
C33_OneInstancePerScope ==
    /\ [][SameWithinScope]_vars
    /\ []DistinctAcrossScopes
    /\ [][EndDiscards]_vars

\* The override blocks that are open: entered and not yet left.
InsideOverride == {p \in Procs : pc[p] = "inOverride"}

\* C34: ContainerRegistry.override(c) can be entered, inside the block
\* get_current() returns c, and leaving the block, normally or by exception,
\* puts back what was current before.
C34_OverrideIsCurrent ==
    /\ [](\A p \in Procs :
             /\ op[p] = "override" => result[p].kind # "AttributeError"
             /\ p \in InsideOverride =>
                    GetCurrentResult(p) = Res("container", using[p].container))
    /\ [][\A p \in InsideOverride :
             pc'[p] = "done" => current_container' = old_container[p]]_vars
============================================================================
